---- MODULE Spec2Model ----
(***************************************************************************)
(* AgentPersistence (llama_stack/providers/inline/agents/meta_reference/   *)
(* persistence.py): session metadata, turns and in-progress tool-call      *)
(* steps stored as JSON text in a flat, ordered key-value store.           *)
(*                                                                         *)
(* Python strings are sequences of code points (naturals), so that key     *)
(* formatting is concatenation and key order is code-point order.          *)
(***************************************************************************)
EXTENDS Naturals, Sequences, FiniteSets

(* ---------------------------- bounds ----------------------------------- *)

\* number of mutating calls (store operations and foreign backend writes)
MaxWrites == 3
\* completed_at values range over 0..MaxTime, 0 being datetime.min
MaxTime == 1

(* ---------------------------- strings ---------------------------------- *)

Colon == 58
XFF == 255
StrSession == <<115, 101, 115, 115, 105, 111, 110>>
StrInProgress ==
    <<105, 110, 95, 112, 114, 111, 103, 114, 101, 115, 115, 95, 116, 111, 111,
      108, 95, 99, 97, 108, 108, 95, 115, 116, 101, 112>>

\* the agent_id this store was constructed with: "a"
AgentId == <<97>>

\* str(uuid.uuid4()) draws from hex digits and '-': "1", "12"
Uuids == {<<49>>, <<49, 50>>}
\* session_id arguments are any str: "1", "12", "1:t"
SessionIds == Uuids \cup {<<49, 58, 116>>}
\* (session_id, turn_id) arguments: ("1","u") ("1","t:u") ("1:t","u")
\* ("1", U+0100) ("12","u")
IdPairs ==
    { <<(<<49>>), (<<117>>)>>,
      <<(<<49>>), (<<116, 58, 117>>)>>,
      <<(<<49, 58, 116>>), (<<117>>)>>,
      <<(<<49>>), (<<256>>)>>,
      <<(<<49, 50>>), (<<117>>)>> }
\* (session_id, turn_id) arguments of the tool-call step operations
StepPairs ==
    { <<(<<49>>), (<<117>>)>>,
      <<(<<49>>), (<<116, 58, 117>>)>>,
      <<(<<49, 58, 116>>), (<<117>>)>> }
\* session names "n", "m"; vector db ids "v", "w"
Names == {<<110>>, <<109>>}
VectorDbIds == {<<118>>, <<119>>}

\* Python str comparison: lexicographic by code point
RECURSIVE StrLessFrom(_, _, _)
StrLessFrom(a, b, i) ==
    IF i > Len(b) THEN FALSE
    ELSE IF i > Len(a) THEN TRUE
    ELSE IF a[i] # b[i] THEN a[i] < b[i]
    ELSE StrLessFrom(a, b, i + 1)

StrLess(a, b) == StrLessFrom(a, b, 1)

StrLeq(a, b) == a = b \/ StrLess(a, b)

(* ---------------------------- values ----------------------------------- *)

\* Optional[str] and Optional[datetime]
NoneStr == [some |-> FALSE, v |-> <<>>]
SomeStr(s) == [some |-> TRUE, v |-> s]
NoneDt == [some |-> FALSE, v |-> 0]
SomeDt(n) == [some |-> TRUE, v |-> n]

DatetimeMin == 0
Times == DatetimeMin..MaxTime
OptTimes == {NoneDt} \cup {SomeDt(n) : n \in Times}

\* JSON values: null, or a string
JNull == [t |-> "null", s |-> <<>>]
JStr(s) == [t |-> "str", s |-> s]

\* a datetime is written as an ISO string: 'T' and a digit
IsoFormat(n) == <<84, 48 + n>>
IsIso(s) == Len(s) = 2 /\ s[1] = 84 /\ s[2] \in 48..57
FromIso(s) == s[2] - 48

JOptStr(o) == IF o.some THEN JStr(o.v) ELSE JNull
\* mutant: an absent datetime is written as the earliest datetime
JOptDtMin(o) == JStr(IsoFormat(IF o.some THEN o.v ELSE DatetimeMin))

JOptDt(o) == IF o.some THEN JStr(IsoFormat(o.v)) ELSE JNull

\* stored text: a JSON object, the empty string, or text that is not JSON
NoFields == [f \in {} |-> JNull]
JObject(fields) == [kind |-> "object", obj |-> fields]
EmptyText == [kind |-> "empty", obj |-> NoFields]
GarbageText == [kind |-> "garbage", obj |-> NoFields]

(* ---------------------------- records ---------------------------------- *)

AgentSessionInfo(session_id, session_name, vector_db_id, started_at) ==
    [session_id |-> session_id, session_name |-> session_name,
     vector_db_id |-> vector_db_id, started_at |-> started_at]

Turn(turn_id, completed_at) ==
    [turn_id |-> turn_id, completed_at |-> completed_at]

ToolExecutionStep(step_id, completed_at) ==
    [step_id |-> step_id, completed_at |-> completed_at]

\* the turns and steps callers pass in
TurnsOf(turn_id) == {Turn(turn_id, c) : c \in OptTimes}
Steps ==
    { ToolExecutionStep(<<112>>, NoneDt),
      ToolExecutionStep(<<113>>, SomeDt(MaxTime)) }

\* model_dump_json() of the three records

\* mutant: an absent vector_db_id is written as "" instead of null
DumpSessionInfoBlankVdb(info) ==
    JObject([f \in {"session_id", "session_name", "vector_db_id", "started_at"} |->
        CASE f = "session_id" -> JStr(info.session_id)
          [] f = "session_name" -> JStr(info.session_name)
          [] f = "vector_db_id" -> JStr(info.vector_db_id.v)
          [] f = "started_at" -> JStr(IsoFormat(info.started_at))])

DumpSessionInfo(info) ==
    JObject([f \in {"session_id", "session_name", "vector_db_id", "started_at"} |->
        CASE f = "session_id" -> JStr(info.session_id)
          [] f = "session_name" -> JStr(info.session_name)
          [] f = "vector_db_id" -> JOptStr(info.vector_db_id)
          [] f = "started_at" -> JStr(IsoFormat(info.started_at))])

DumpTurn(turn) ==
    JObject([f \in {"turn_id", "completed_at"} |->
        CASE f = "turn_id" -> JStr(turn.turn_id)
          [] f = "completed_at" -> JOptDt(turn.completed_at)])

DumpStep(step) ==
    JObject([f \in {"step_id", "completed_at"} |->
        CASE f = "step_id" -> JStr(step.step_id)
          [] f = "completed_at" -> JOptDt(step.completed_at)])

\* field validation of Model(**json.loads(value)); unknown fields are ignored
HasStr(obj, f) == f \in DOMAIN obj /\ obj[f].t = "str"
HasDt(obj, f) == HasStr(obj, f) /\ IsIso(obj[f].s)
OkOptStr(obj, f) == f \in DOMAIN obj => obj[f].t \in {"null", "str"}
OkOptDt(obj, f) == f \in DOMAIN obj => (obj[f].t = "null" \/ HasDt(obj, f))
GetOptStr(obj, f) ==
    IF f \in DOMAIN obj /\ obj[f].t = "str" THEN SomeStr(obj[f].s) ELSE NoneStr
GetOptDt(obj, f) ==
    IF f \in DOMAIN obj /\ obj[f].t = "str" THEN SomeDt(FromIso(obj[f].s)) ELSE NoneDt

\* exc is "" when the value parses, else the exception raised
ParseSessionInfo(text) ==
    IF text.kind # "object"
    THEN [exc |-> "JSONDecodeError", val |-> AgentSessionInfo(<<>>, <<>>, NoneStr, 0)]
    ELSE IF ~(/\ HasStr(text.obj, "session_id")
              /\ HasStr(text.obj, "session_name")
              /\ OkOptStr(text.obj, "vector_db_id")
              /\ HasDt(text.obj, "started_at"))
    THEN [exc |-> "ValidationError", val |-> AgentSessionInfo(<<>>, <<>>, NoneStr, 0)]
    ELSE [exc |-> "",
          val |-> AgentSessionInfo(text.obj["session_id"].s,
                                   text.obj["session_name"].s,
                                   GetOptStr(text.obj, "vector_db_id"),
                                   FromIso(text.obj["started_at"].s))]

ParseTurn(text) ==
    IF text.kind # "object"
    THEN [exc |-> "JSONDecodeError", val |-> Turn(<<>>, NoneDt)]
    ELSE IF ~(HasStr(text.obj, "turn_id") /\ OkOptDt(text.obj, "completed_at"))
    THEN [exc |-> "ValidationError", val |-> Turn(<<>>, NoneDt)]
    ELSE [exc |-> "",
          val |-> Turn(text.obj["turn_id"].s, GetOptDt(text.obj, "completed_at"))]

ParseStep(text) ==
    IF text.kind # "object"
    THEN [exc |-> "JSONDecodeError", val |-> ToolExecutionStep(<<>>, NoneDt)]
    ELSE IF ~(HasStr(text.obj, "step_id") /\ OkOptDt(text.obj, "completed_at"))
    THEN [exc |-> "ValidationError", val |-> ToolExecutionStep(<<>>, NoneDt)]
    ELSE [exc |-> "",
          val |-> ToolExecutionStep(text.obj["step_id"].s,
                                    GetOptDt(text.obj, "completed_at"))]

(* ---------------------------- key-value store -------------------------- *)

KVSet(store, key, value) ==
    [k \in (DOMAIN store) \cup {key} |-> IF k = key THEN value ELSE store[k]]

\* get returns None for a key that is not set
KVGet(store, key) ==
    IF key \in DOMAIN store
    THEN [present |-> TRUE, text |-> store[key]]
    ELSE [present |-> FALSE, text |-> EmptyText]

RECURSIVE InKeyOrder(_, _)
InKeyOrder(store, keys) ==
    IF keys = {} THEN <<>>
    ELSE LET k == CHOOSE x \in keys : \A y \in keys : StrLeq(x, y)
         IN <<store[k]>> \o InKeyOrder(store, keys \ {k})

\* the values of the keys in [start_key, end_key), in key order
KVRange(store, start_key, end_key) ==
    InKeyOrder(store,
               {k \in DOMAIN store : StrLeq(start_key, k) /\ StrLess(k, end_key)})

\* Python truthiness of a returned value: None and "" are falsy
Falsy(value) == ~value.present \/ value.text.kind = "empty"

(* ---------------------------- keys ------------------------------------- *)

SessionKey(session_id) ==
    StrSession \o <<Colon>> \o AgentId \o <<Colon>> \o session_id

TurnKey(session_id, turn_id) ==
    StrSession \o <<Colon>> \o AgentId \o <<Colon>> \o session_id
        \o <<Colon>> \o turn_id

TurnsStartKey(session_id) ==
    StrSession \o <<Colon>> \o AgentId \o <<Colon>> \o session_id \o <<Colon>>

TurnsEndKey(session_id) ==
    StrSession \o <<Colon>> \o AgentId \o <<Colon>> \o session_id \o <<Colon>>
        \o <<XFF, XFF, XFF, XFF>>

StepKey(session_id, turn_id) ==
    StrInProgress \o <<Colon>> \o AgentId \o <<Colon>> \o session_id
        \o <<Colon>> \o turn_id

(* ---------------------------- reads ------------------------------------ *)

\* what a call hands back: tag is "None", "raise" or the kind of val
RetNone == [tag |-> "None", val |-> <<>>]
Raise(exc) == [tag |-> "raise", val |-> exc]
RetVal(tag, val) == [tag |-> tag, val |-> val]

get_session_info(store, session_id) ==
    LET value == KVGet(store, SessionKey(session_id))
        p == ParseSessionInfo(value.text)
    IN IF Falsy(value) THEN RetNone
       ELSE IF p.exc # "" THEN Raise(p.exc)
       ELSE RetVal("info", p.val)

\* mutant: the loop stops at the first value that does not parse
RECURSIVE ParsedTurnsUntilBad(_)
ParsedTurnsUntilBad(values) ==
    IF values = <<>> THEN <<>>
    ELSE LET p == ParseTurn(Head(values))
         IN IF p.exc = "" THEN <<p.val>> \o ParsedTurnsUntilBad(Tail(values))
            ELSE <<>>

\* the loop over the scanned values: a value that does not parse is skipped
RECURSIVE ParsedTurns(_)
ParsedTurns(values) ==
    IF values = <<>> THEN <<>>
    ELSE LET p == ParseTurn(Head(values))
         IN (IF p.exc = "" THEN <<p.val>> ELSE <<>>) \o ParsedTurns(Tail(values))

\* key=lambda x: (x.completed_at or datetime.min)
SortKey(turn) ==
    IF turn.completed_at.some THEN turn.completed_at.v ELSE DatetimeMin

\* mutant: x goes in front of the elements with an equal key
RECURSIVE InsertSortedUnstable(_, _)
InsertSortedUnstable(sorted, x) ==
    IF sorted = <<>> THEN <<x>>
    ELSE IF SortKey(Head(sorted)) < SortKey(x)
    THEN <<Head(sorted)>> \o InsertSortedUnstable(Tail(sorted), x)
    ELSE <<x>> \o sorted

\* list.sort is stable: x goes behind every element whose key is not greater
RECURSIVE InsertSorted(_, _)
InsertSorted(sorted, x) ==
    IF sorted = <<>> THEN <<x>>
    ELSE IF SortKey(Head(sorted)) <= SortKey(x)
    THEN <<Head(sorted)>> \o InsertSorted(Tail(sorted), x)
    ELSE <<x>> \o sorted

RECURSIVE SortTurns(_)
SortTurns(turns) ==
    IF turns = <<>> THEN <<>>
    ELSE InsertSorted(SortTurns(SubSeq(turns, 1, Len(turns) - 1)),
                      turns[Len(turns)])

get_session_turns(store, session_id) ==
    LET values == KVRange(store, TurnsStartKey(session_id), TurnsEndKey(session_id))
    IN RetVal("turns", SortTurns(ParsedTurns(values)))

\* mutant: the value is parsed without the check for None
get_session_turn_unchecked(store, session_id, turn_id) ==
    LET value == KVGet(store, TurnKey(session_id, turn_id))
        p == ParseTurn(value.text)
    IN IF p.exc # "" THEN Raise(p.exc)
       ELSE RetVal("turn", p.val)

get_session_turn(store, session_id, turn_id) ==
    LET value == KVGet(store, TurnKey(session_id, turn_id))
        p == ParseTurn(value.text)
    IN IF Falsy(value) THEN RetNone
       ELSE IF p.exc # "" THEN Raise(p.exc)
       ELSE RetVal("turn", p.val)

get_in_progress_tool_call_step(store, session_id, turn_id) ==
    LET value == KVGet(store, StepKey(session_id, turn_id))
        p == ParseStep(value.text)
    IN IF Falsy(value) THEN RetNone
       ELSE IF p.exc # "" THEN Raise(p.exc)
       ELSE RetVal("step", p.val)

(* ---------------------------- state ------------------------------------ *)

\* the two coroutines that may be inside add_vector_db_to_session at once
Tasks == {1, 2}

VARIABLES
    kv,          \* the backend: key -> stored text
    pc,          \* per task: "idle", or "avd_set" between the get and the set
    loc,         \* per task: the locals of add_vector_db_to_session
    ret,         \* the call that completed last, and what it handed back
    clock,       \* datetime.now()
    writes,      \* mutating calls begun so far
    created,     \* history: session_id -> what create_session wrote for it
    attachCalls, \* history: the (session_id, vector_db_id) of every attach call
    addedTurns,  \* history: the (session_id, turn) of every add_turn_to_session
    lastStep     \* history: (session_id, turn_id) -> step of the latest set call

vars ==
    <<kv, pc, loc, ret, clock, writes, created, attachCalls, addedTurns, lastStep>>

hist == <<created, attachCalls, addedTurns, lastStep>>

NoLocals ==
    [session_id |-> <<>>, vector_db_id |-> <<>>,
     session_info |-> AgentSessionInfo(<<>>, <<>>, NoneStr, 0)]

Call(op, session_id, turn_id, res) ==
    [op |-> op, sid |-> session_id, tid |-> turn_id, res |-> res]

Init ==
    /\ kv = [k \in {} |-> EmptyText]
    /\ pc = [t \in Tasks |-> "idle"]
    /\ loc = [t \in Tasks |-> NoLocals]
    /\ ret = Call("init", <<>>, <<>>, RetNone)
    /\ clock = 1
    /\ writes = 0
    /\ created = [k \in {} |-> AgentSessionInfo(<<>>, <<>>, NoneStr, 0)]
    /\ attachCalls = {}
    /\ addedTurns = {}
    /\ lastStep = [k \in {} |-> ToolExecutionStep(<<>>, NoneDt)]

(* ---------------------------- operations ------------------------------- *)

\* uuid4 yields an id no session has
CreateSession(name, session_id) ==
    LET session_info == AgentSessionInfo(session_id, name, NoneStr, clock)
    IN /\ writes < MaxWrites
       /\ session_id \notin DOMAIN created
       /\ kv' = KVSet(kv, SessionKey(session_id), DumpSessionInfo(session_info))
       /\ ret' = Call("create_session", session_id, <<>>, RetVal("str", session_id))
       /\ clock' = clock + 1
       /\ writes' = writes + 1
       /\ created' = [k \in (DOMAIN created) \cup {session_id} |->
                         IF k = session_id THEN session_info ELSE created[k]]
       /\ UNCHANGED <<pc, loc, attachCalls, addedTurns, lastStep>>

GetSessionInfo(session_id) ==
    /\ ret' = Call("get_session_info", session_id, <<>>,
                   get_session_info(kv, session_id))
    /\ UNCHANGED <<kv, pc, loc, clock, writes, hist>>

\* mutant: a missing session is created by the attach instead of refused
AddVectorDbToSessionUpsert(t, session_id, vector_db_id) ==
    LET r == get_session_info(kv, session_id)
    IN /\ writes < MaxWrites
       /\ pc[t] = "idle"
       /\ \A u \in Tasks : u < t => pc[u] # "idle"
       /\ writes' = writes + 1
       /\ attachCalls' = attachCalls \cup {<<session_id, vector_db_id>>}
       /\ IF r.tag = "info"
          THEN /\ pc' = [pc EXCEPT ![t] = "avd_set"]
               /\ loc' = [loc EXCEPT ![t] =
                            [session_id |-> session_id,
                             vector_db_id |-> vector_db_id,
                             session_info |-> r.val]]
               /\ UNCHANGED <<ret, kv>>
          ELSE IF r.tag = "None"
          THEN /\ kv' = KVSet(kv, SessionKey(session_id),
                              DumpSessionInfo(AgentSessionInfo(
                                  session_id, <<>>, SomeStr(vector_db_id), clock)))
               /\ ret' = Call("add_vector_db_to_session", session_id, <<>>, RetNone)
               /\ UNCHANGED <<pc, loc>>
          ELSE /\ ret' = Call("add_vector_db_to_session", session_id, <<>>, r)
               /\ UNCHANGED <<pc, loc, kv>>
       /\ UNCHANGED <<clock, created, addedTurns, lastStep>>

\* mutant: a missing session gets a record written before the raise
AddVectorDbToSessionGetMarks(t, session_id, vector_db_id) ==
    LET r == get_session_info(kv, session_id)
    IN /\ writes < MaxWrites
       /\ pc[t] = "idle"
       /\ \A u \in Tasks : u < t => pc[u] # "idle"
       /\ writes' = writes + 1
       /\ attachCalls' = attachCalls \cup {<<session_id, vector_db_id>>}
       /\ IF r.tag = "info"
          THEN /\ pc' = [pc EXCEPT ![t] = "avd_set"]
               /\ loc' = [loc EXCEPT ![t] =
                            [session_id |-> session_id,
                             vector_db_id |-> vector_db_id,
                             session_info |-> r.val]]
               /\ UNCHANGED <<ret, kv>>
          ELSE /\ kv' = KVSet(kv, SessionKey(session_id),
                              DumpSessionInfo(AgentSessionInfo(
                                  session_id, <<>>, SomeStr(vector_db_id), clock)))
               /\ ret' = Call("add_vector_db_to_session", session_id, <<>>,
                              Raise("ValueError: not found"))
               /\ UNCHANGED <<pc, loc>>
       /\ UNCHANGED <<clock, created, addedTurns, lastStep>>

\* first half of add_vector_db_to_session: the read, and the raise when the
\* session is missing or its record does not parse; a call runs in the lowest
\* free task
AddVectorDbToSessionGet(t, session_id, vector_db_id) ==
    LET r == get_session_info(kv, session_id)
    IN /\ writes < MaxWrites
       /\ pc[t] = "idle"
       /\ \A u \in Tasks : u < t => pc[u] # "idle"
       /\ writes' = writes + 1
       /\ attachCalls' = attachCalls \cup {<<session_id, vector_db_id>>}
       /\ IF r.tag = "info"
          THEN /\ pc' = [pc EXCEPT ![t] = "avd_set"]
               /\ loc' = [loc EXCEPT ![t] =
                            [session_id |-> session_id,
                             vector_db_id |-> vector_db_id,
                             session_info |-> r.val]]
               /\ UNCHANGED ret
          ELSE /\ ret' = Call("add_vector_db_to_session", session_id, <<>>,
                              IF r.tag = "None" THEN Raise("ValueError: not found")
                              ELSE r)
               /\ UNCHANGED <<pc, loc>>
       /\ UNCHANGED <<kv, clock, created, addedTurns, lastStep>>

\* mutant: the record is rebuilt from scratch, started_at taken anew
AddVectorDbToSessionSetRebuilt(t) ==
    LET session_info ==
            AgentSessionInfo(loc[t].session_id, loc[t].session_info.session_name,
                             SomeStr(loc[t].vector_db_id), clock)
    IN /\ pc[t] = "avd_set"
       /\ kv' = KVSet(kv, SessionKey(loc[t].session_id), DumpSessionInfo(session_info))
       /\ pc' = [pc EXCEPT ![t] = "idle"]
       /\ loc' = [loc EXCEPT ![t] = NoLocals]
       /\ ret' = Call("add_vector_db_to_session", loc[t].session_id, <<>>, RetNone)
       /\ UNCHANGED <<clock, writes, hist>>

\* mutant: the write is skipped when the stored record already has a
\* vector_db_id (first writer wins)
AddVectorDbToSessionSetIfUnset(t) ==
    LET session_info ==
            [loc[t].session_info EXCEPT !.vector_db_id = SomeStr(loc[t].vector_db_id)]
        stored == get_session_info(kv, loc[t].session_id)
    IN /\ pc[t] = "avd_set"
       /\ kv' = IF stored.tag = "info" /\ stored.val.vector_db_id.some
                THEN kv
                ELSE KVSet(kv, SessionKey(loc[t].session_id),
                           DumpSessionInfo(session_info))
       /\ pc' = [pc EXCEPT ![t] = "idle"]
       /\ loc' = [loc EXCEPT ![t] = NoLocals]
       /\ ret' = Call("add_vector_db_to_session", loc[t].session_id, <<>>, RetNone)
       /\ UNCHANGED <<clock, writes, hist>>

\* second half: the whole record is written back with vector_db_id set
AddVectorDbToSessionSet(t) ==
    LET session_info ==
            [loc[t].session_info EXCEPT !.vector_db_id = SomeStr(loc[t].vector_db_id)]
    IN /\ pc[t] = "avd_set"
       /\ kv' = KVSet(kv, SessionKey(loc[t].session_id), DumpSessionInfo(session_info))
       /\ pc' = [pc EXCEPT ![t] = "idle"]
       /\ loc' = [loc EXCEPT ![t] = NoLocals]
       /\ ret' = Call("add_vector_db_to_session", loc[t].session_id, <<>>, RetNone)
       /\ UNCHANGED <<clock, writes, hist>>

\* mutant: adding the turn clears the in-progress step of that turn
AddTurnToSessionClearsStep(session_id, turn) ==
    /\ writes < MaxWrites
    /\ kv' = KVSet(KVSet(kv, TurnKey(session_id, turn.turn_id), DumpTurn(turn)),
                   StepKey(session_id, turn.turn_id), EmptyText)
    /\ ret' = Call("add_turn_to_session", session_id, turn.turn_id, RetNone)
    /\ writes' = writes + 1
    /\ addedTurns' = addedTurns \cup {<<session_id, turn>>}
    /\ UNCHANGED <<pc, loc, clock, created, attachCalls, lastStep>>

\* mutant: a turn is added only to a session whose record is stored
AddTurnToSessionChecked(session_id, turn) ==
    /\ writes < MaxWrites
    /\ IF get_session_info(kv, session_id).tag = "None"
       THEN /\ ret' = Call("add_turn_to_session", session_id, turn.turn_id,
                           Raise("ValueError: not found"))
            /\ UNCHANGED <<kv, addedTurns>>
       ELSE /\ kv' = KVSet(kv, TurnKey(session_id, turn.turn_id), DumpTurn(turn))
            /\ ret' = Call("add_turn_to_session", session_id, turn.turn_id, RetNone)
            /\ addedTurns' = addedTurns \cup {<<session_id, turn>>}
    /\ writes' = writes + 1
    /\ UNCHANGED <<pc, loc, clock, created, attachCalls, lastStep>>

AddTurnToSession(session_id, turn) ==
    /\ writes < MaxWrites
    /\ kv' = KVSet(kv, TurnKey(session_id, turn.turn_id), DumpTurn(turn))
    /\ ret' = Call("add_turn_to_session", session_id, turn.turn_id, RetNone)
    /\ writes' = writes + 1
    /\ addedTurns' = addedTurns \cup {<<session_id, turn>>}
    /\ UNCHANGED <<pc, loc, clock, created, attachCalls, lastStep>>

GetSessionTurns(session_id) ==
    /\ ret' = Call("get_session_turns", session_id, <<>>,
                   get_session_turns(kv, session_id))
    /\ UNCHANGED <<kv, pc, loc, clock, writes, hist>>

GetSessionTurn(session_id, turn_id) ==
    /\ ret' = Call("get_session_turn", session_id, turn_id,
                   get_session_turn(kv, session_id, turn_id))
    /\ UNCHANGED <<kv, pc, loc, clock, writes, hist>>

SetInProgressToolCallStep(session_id, turn_id, step) ==
    /\ writes < MaxWrites
    /\ kv' = KVSet(kv, StepKey(session_id, turn_id), DumpStep(step))
    /\ ret' = Call("set_in_progress_tool_call_step", session_id, turn_id, RetNone)
    /\ writes' = writes + 1
    /\ lastStep' = [k \in (DOMAIN lastStep) \cup {<<session_id, turn_id>>} |->
                       IF k = <<session_id, turn_id>> THEN step ELSE lastStep[k]]
    /\ UNCHANGED <<pc, loc, clock, created, attachCalls, addedTurns>>

GetInProgressToolCallStep(session_id, turn_id) ==
    /\ ret' = Call("get_in_progress_tool_call_step", session_id, turn_id,
                   get_in_progress_tool_call_step(kv, session_id, turn_id))
    /\ UNCHANGED <<kv, pc, loc, clock, writes, hist>>

Next ==
    \/ \E name \in Names, session_id \in Uuids : CreateSession(name, session_id)
    \/ \E session_id \in SessionIds : GetSessionInfo(session_id)
    \/ \E t \in Tasks, session_id \in SessionIds, vector_db_id \in VectorDbIds :
          AddVectorDbToSessionGet(t, session_id, vector_db_id)
    \/ \E t \in Tasks : AddVectorDbToSessionSet(t)
    \/ \E p \in IdPairs : \E turn \in TurnsOf(p[2]) : AddTurnToSession(p[1], turn)
    \/ \E session_id \in SessionIds : GetSessionTurns(session_id)
    \/ \E p \in IdPairs : GetSessionTurn(p[1], p[2])
    \/ \E p \in StepPairs, step \in Steps :
          SetInProgressToolCallStep(p[1], p[2], step)
    \/ \E p \in StepPairs : GetInProgressToolCallStep(p[1], p[2])

Spec == Init /\ [][Next]_vars

(* ---------------------------- a shared backend ------------------------- *)

\* The backend handle is shared: another client of the same store may set any
\* key to any text.  "", text that is not JSON, and "{}" stand for the texts
\* that are no record of this store.
ForeignKeys ==
    { SessionKey(<<49>>), TurnKey(<<49>>, <<116, 58, 117>>), StepKey(<<49>>, <<117>>) }
ForeignTexts == {EmptyText, GarbageText, JObject(NoFields)}

KVForeignSet(key, text) ==
    /\ writes < MaxWrites
    /\ kv' = KVSet(kv, key, text)
    /\ ret' = Call("foreign_set", <<>>, <<>>, RetNone)
    /\ writes' = writes + 1
    /\ UNCHANGED <<pc, loc, clock, hist>>

NextShared ==
    \/ Next
    \/ \E key \in ForeignKeys, text \in ForeignTexts : KVForeignSet(key, text)

SpecShared == Init /\ [][NextShared]_vars

(* ---------------------------- a second store --------------------------- *)

\* AgentPersistence(agent_id, kvstore) constructed a second time over the same
\* kvstore, for another agent: "b", "a:1"
OtherAgentIds == {<<98>>, <<97, 58, 49>>}
\* the session that store works on: "t", with turn "u"
OtherSessionId == <<116>>
OtherTurnId == <<117>>

\* the keys as that store formats them
SessionKeyOf(agent_id, session_id) ==
    StrSession \o <<Colon>> \o agent_id \o <<Colon>> \o session_id

TurnKeyOf(agent_id, session_id, turn_id) ==
    StrSession \o <<Colon>> \o agent_id \o <<Colon>> \o session_id
        \o <<Colon>> \o turn_id

StepKeyOf(agent_id, session_id, turn_id) ==
    StrInProgress \o <<Colon>> \o agent_id \o <<Colon>> \o session_id
        \o <<Colon>> \o turn_id

OtherCreateSession(agent_id, name, session_id) ==
    LET session_info == AgentSessionInfo(session_id, name, NoneStr, clock)
    IN /\ writes < MaxWrites
       /\ kv' = KVSet(kv, SessionKeyOf(agent_id, session_id),
                      DumpSessionInfo(session_info))
       /\ ret' = Call("other.create_session", session_id, <<>>,
                      RetVal("str", session_id))
       /\ clock' = clock + 1
       /\ writes' = writes + 1
       /\ UNCHANGED <<pc, loc, hist>>

OtherAddTurnToSession(agent_id, session_id, turn) ==
    /\ writes < MaxWrites
    /\ kv' = KVSet(kv, TurnKeyOf(agent_id, session_id, turn.turn_id), DumpTurn(turn))
    /\ ret' = Call("other.add_turn_to_session", session_id, turn.turn_id, RetNone)
    /\ writes' = writes + 1
    /\ UNCHANGED <<pc, loc, clock, hist>>

OtherSetInProgressToolCallStep(agent_id, session_id, turn_id, step) ==
    /\ writes < MaxWrites
    /\ kv' = KVSet(kv, StepKeyOf(agent_id, session_id, turn_id), DumpStep(step))
    /\ ret' = Call("other.set_in_progress_tool_call_step", session_id, turn_id,
                   RetNone)
    /\ writes' = writes + 1
    /\ UNCHANGED <<pc, loc, clock, hist>>

OtherStoreWrite ==
    \E agent_id \in OtherAgentIds :
        \/ OtherCreateSession(agent_id, <<110>>, OtherSessionId)
        \/ \E turn \in TurnsOf(OtherTurnId) :
              OtherAddTurnToSession(agent_id, OtherSessionId, turn)
        \/ \E step \in Steps :
              OtherSetInProgressToolCallStep(agent_id, OtherSessionId,
                                             OtherTurnId, step)

NextAgents ==
    \/ Next
    \/ OtherStoreWrite

SpecAgents == Init /\ [][NextAgents]_vars

(* ---------------------------- a failing backend ---------------------- *)

\* A kvstore call may raise instead of returning.  No mutation catches the
\* exception, so the call ends there and the exception reaches the caller; a
\* set that raised has stored nothing.
BackendError == Raise("BackendError")

CreateSessionFails ==
    /\ writes < MaxWrites
    /\ ret' = Call("create_session", <<>>, <<>>, BackendError)
    /\ clock' = clock + 1
    /\ writes' = writes + 1
    /\ UNCHANGED <<kv, pc, loc, hist>>

\* the get of add_vector_db_to_session raises
AddVectorDbToSessionGetFails(t, session_id, vector_db_id) ==
    /\ writes < MaxWrites
    /\ pc[t] = "idle"
    /\ \A u \in Tasks : u < t => pc[u] # "idle"
    /\ ret' = Call("add_vector_db_to_session", session_id, <<>>, BackendError)
    /\ writes' = writes + 1
    /\ attachCalls' = attachCalls \cup {<<session_id, vector_db_id>>}
    /\ UNCHANGED <<kv, pc, loc, clock, created, addedTurns, lastStep>>

\* the set of add_vector_db_to_session raises
AddVectorDbToSessionSetFails(t) ==
    /\ pc[t] = "avd_set"
    /\ pc' = [pc EXCEPT ![t] = "idle"]
    /\ loc' = [loc EXCEPT ![t] = NoLocals]
    /\ ret' = Call("add_vector_db_to_session", loc[t].session_id, <<>>, BackendError)
    /\ UNCHANGED <<kv, clock, writes, hist>>

AddTurnToSessionFails(session_id, turn) ==
    /\ writes < MaxWrites
    /\ ret' = Call("add_turn_to_session", session_id, turn.turn_id, BackendError)
    /\ writes' = writes + 1
    /\ UNCHANGED <<kv, pc, loc, clock, hist>>

SetInProgressToolCallStepFails(session_id, turn_id) ==
    /\ writes < MaxWrites
    /\ ret' = Call("set_in_progress_tool_call_step", session_id, turn_id,
                   BackendError)
    /\ writes' = writes + 1
    /\ UNCHANGED <<kv, pc, loc, clock, hist>>

NextFailing ==
    \/ Next
    \/ CreateSessionFails
    \/ \E t \in Tasks, session_id \in SessionIds, vector_db_id \in VectorDbIds :
          AddVectorDbToSessionGetFails(t, session_id, vector_db_id)
    \/ \E t \in Tasks : AddVectorDbToSessionSetFails(t)
    \/ \E p \in IdPairs : \E turn \in TurnsOf(p[2]) : AddTurnToSessionFails(p[1], turn)
    \/ \E p \in StepPairs : SetInProgressToolCallStepFails(p[1], p[2])

SpecFailing == Init /\ [][NextFailing]_vars

(* ---------------------------- properties ------------------------------- *)

AttachedTo(session_id) == {c \in attachCalls : c[1] = session_id}

\* C1: get_session_info of a session that create_session made, with no
\* attach call on it so far, returns the record with that session_id, the
\* name and the creation time given to create_session, and no vector_db_id.
C1_CreateThenGetInfo ==
    (/\ ret.op = "get_session_info"
     /\ ret.sid \in DOMAIN created
     /\ AttachedTo(ret.sid) = {})
    => /\ ret.res.tag = "info"
       /\ ret.res.val.session_id = ret.sid
       /\ ret.res.val.session_name = created[ret.sid].session_name
       /\ ret.res.val.started_at = created[ret.sid].started_at
       /\ ret.res.val.vector_db_id = NoneStr

C1_Witness ==
    /\ ret.op = "get_session_info"
    /\ ret.sid \in DOMAIN created
    /\ AttachedTo(ret.sid) = {}
    /\ ret.res.tag = "info"
    /\ ret.res.val.session_name = <<109>>
    /\ ret.res.val.started_at = 2

\* C2: an add_vector_db_to_session call that finds nothing under the
\* session's metadata key raises the not-found ValueError at once and leaves
\* the store as it was.
C2_AttachMissingNoWrite ==
    [][\A t \in Tasks, session_id \in SessionIds, vector_db_id \in VectorDbIds :
          (/\ AddVectorDbToSessionGet(t, session_id, vector_db_id)
           /\ SessionKey(session_id) \notin DOMAIN kv)
          => /\ ret'.op = "add_vector_db_to_session"
             /\ ret'.sid = session_id
             /\ ret'.res.tag = "raise"
             /\ ret'.res.val = "ValueError: not found"
             /\ pc' = pc
             /\ kv' = kv]_vars

C2_Witness ==
    /\ ret.op = "add_vector_db_to_session"
    /\ ret.res.tag = "raise"
    /\ ret.res.val = "ValueError: not found"
    /\ SessionKey(ret.sid) \notin DOMAIN kv
    /\ DOMAIN kv # {}

\* C3: whatever attach calls ran or are running, the stored record of a
\* created session keeps the session_id, session_name and started_at that
\* create_session wrote, and its vector_db_id is absent or a value some attach
\* call on that session passed.
C3_AttachKeepsOtherFields ==
    \A session_id \in DOMAIN created :
        LET r == get_session_info(kv, session_id)
        IN /\ r.tag = "info"
           /\ r.val.session_id = session_id
           /\ r.val.session_name = created[session_id].session_name
           /\ r.val.started_at = created[session_id].started_at
           /\ r.val.vector_db_id.some
                 => <<session_id, r.val.vector_db_id.v>> \in attachCalls

\* two attach calls on one session overlap: the first has written, the second
\* still holds the record it read before that write
C3_Witness ==
    \E session_id \in DOMAIN created :
        /\ pc[1] = "idle" /\ pc[2] = "avd_set"
        /\ loc[2].session_id = session_id
        /\ loc[2].session_info.vector_db_id = NoneStr
        /\ ret.op = "add_vector_db_to_session"
        /\ ret.sid = session_id
        /\ ret.res.tag = "None"
        /\ get_session_info(kv, session_id).val.vector_db_id.some
        /\ get_session_info(kv, session_id).val.vector_db_id.v # loc[2].vector_db_id

\* C4: the turns get_session_turns returns, when their completed_at values
\* are pairwise distinct, are in ascending completed_at order with every
\* turn that has no completed_at before every turn that has one, datetime.min
\* included.
C4_AbsentBeforeTimestamped ==
    ret.op = "get_session_turns" =>
        LET turns == ret.res.val
        IN (\A i, j \in 1..Len(turns) :
                i # j => turns[i].completed_at # turns[j].completed_at)
           => \A i, j \in 1..Len(turns) :
                 i < j =>
                    /\ turns[i].completed_at.some => turns[j].completed_at.some
                    /\ (turns[i].completed_at.some /\ turns[j].completed_at.some)
                          => turns[i].completed_at.v <= turns[j].completed_at.v

\* C5: every turn get_session_turns(S) returns was added with
\* add_turn_to_session(S, ...), never only under another session id.
C5_OnlyOwnTurns ==
    ret.op = "get_session_turns" =>
        \A i \in 1..Len(ret.res.val) : <<ret.sid, ret.res.val[i]>> \in addedTurns

\* C6: the key of every turn added to S lies in the scanned range of S, and
\* get_session_turns(S) returns one entry for each turn_id added to S.
C6_EveryTurnScanned ==
    /\ \A c \in addedTurns :
          /\ StrLeq(TurnsStartKey(c[1]), TurnKey(c[1], c[2].turn_id))
          /\ StrLess(TurnKey(c[1], c[2].turn_id), TurnsEndKey(c[1]))
    /\ ret.op = "get_session_turns" =>
          LET turns == ret.res.val
          IN /\ \A c \in addedTurns :
                   c[1] = ret.sid
                      => \E i \in 1..Len(turns) : turns[i].turn_id = c[2].turn_id
             /\ \A i, j \in 1..Len(turns) :
                   i # j => turns[i].turn_id # turns[j].turn_id

ScannedValues(session_id) ==
    KVRange(kv, TurnsStartKey(session_id), TurnsEndKey(session_id))

\* C7: get_session_turns never raises, and returns one turn for each scanned
\* value that parses as a Turn, the other scanned values being left out.
C7_CorruptTurnsSkipped ==
    ret.op = "get_session_turns" =>
        LET values == ScannedValues(ret.sid)
            good == {i \in 1..Len(values) : ParseTurn(values[i]).exc = ""}
            turns == ret.res.val
        IN /\ ret.res.tag = "turns"
           /\ Len(turns) = Cardinality(good)
           /\ \A i \in good :
                 Cardinality({j \in 1..Len(turns) : turns[j] = ParseTurn(values[i]).val})
                    = Cardinality({k \in good :
                                     ParseTurn(values[k]).val = ParseTurn(values[i]).val})

\* a value that does not parse sits in the range before one that does
C7_Witness ==
    /\ ret.op = "get_session_turns"
    /\ Len(ScannedValues(ret.sid)) = 2
    /\ ParseTurn(ScannedValues(ret.sid)[1]).exc # ""
    /\ ParseTurn(ScannedValues(ret.sid)[2]).exc = ""
    /\ Len(ret.res.val) = 1

\* C8: a point read whose key holds a text that does not parse as the
\* record it expects (the empty text included) raises, and does not return
\* None.
C8_CorruptPointReadRaises ==
    /\ (/\ ret.op = "get_session_info"
        /\ SessionKey(ret.sid) \in DOMAIN kv
        /\ ParseSessionInfo(kv[SessionKey(ret.sid)]).exc # "")
       => ret.res.tag = "raise"
    /\ (/\ ret.op = "get_session_turn"
        /\ TurnKey(ret.sid, ret.tid) \in DOMAIN kv
        /\ ParseTurn(kv[TurnKey(ret.sid, ret.tid)]).exc # "")
       => ret.res.tag = "raise"
    /\ (/\ ret.op = "get_in_progress_tool_call_step"
        /\ StepKey(ret.sid, ret.tid) \in DOMAIN kv
        /\ ParseStep(kv[StepKey(ret.sid, ret.tid)]).exc # "")
       => ret.res.tag = "raise"

\* C9: get_session_turn and get_in_progress_tool_call_step return None when
\* their key is not set, whatever else the store holds.
C9_UnsetKeyGivesNone ==
    /\ (ret.op = "get_session_turn" /\ TurnKey(ret.sid, ret.tid) \notin DOMAIN kv)
       => ret.res.tag = "None"
    /\ (/\ ret.op = "get_in_progress_tool_call_step"
        /\ StepKey(ret.sid, ret.tid) \notin DOMAIN kv)
       => ret.res.tag = "None"

\* the session was never created, and other turns and steps are stored
C9_Witness ==
    /\ ret.op = "get_session_turn"
    /\ TurnKey(ret.sid, ret.tid) \notin DOMAIN kv
    /\ SessionKey(ret.sid) \notin DOMAIN kv
    /\ ret.res.tag = "None"
    /\ \E p \in IdPairs : TurnKey(p[1], p[2]) \in DOMAIN kv
    /\ \E p \in StepPairs : StepKey(p[1], p[2]) \in DOMAIN kv

\* C10: get_in_progress_tool_call_step(S, T) returns the step of the latest
\* set_in_progress_tool_call_step(S, T, ...), or None when no set call was made
\* for the pair (S, T); set calls for other pairs do not change that.
C10_LatestStepOfPair ==
    ret.op = "get_in_progress_tool_call_step" =>
        IF <<ret.sid, ret.tid>> \in DOMAIN lastStep
        THEN ret.res.tag = "step" /\ ret.res.val = lastStep[<<ret.sid, ret.tid>>]
        ELSE ret.res.tag = "None"

\* C11: an attach call that finds the session goes on to its set whatever the
\* other task is doing, no call waits for another, and each set leaves the
\* stored vector_db_id equal to the value of the call that made it: of two
\* overlapping calls the one that sets last wins and the other value is gone.
C11_LastSetWins ==
    [][/\ \A t \in Tasks, session_id \in SessionIds, vector_db_id \in VectorDbIds :
             (/\ AddVectorDbToSessionGet(t, session_id, vector_db_id)
              /\ get_session_info(kv, session_id).tag = "info")
             => /\ pc'[t] = "avd_set"
                /\ kv' = kv
       /\ \A t \in Tasks :
             AddVectorDbToSessionSet(t)
             => /\ ret'.op = "add_vector_db_to_session"
                /\ ret'.res.tag = "None"
                /\ get_session_info(kv', loc[t].session_id).tag = "info"
                /\ get_session_info(kv', loc[t].session_id).val.vector_db_id
                      = SomeStr(loc[t].vector_db_id)]_vars

\* both calls have read the record without a vector_db_id; the second has
\* set its value and the first is about to overwrite it with another
C11_Witness ==
    /\ pc[1] = "avd_set" /\ pc[2] = "idle"
    /\ loc[1].session_id \in DOMAIN created
    /\ loc[1].session_info.vector_db_id = NoneStr
    /\ ret.op = "add_vector_db_to_session"
    /\ ret.sid = loc[1].session_id
    /\ ret.res.tag = "None"
    /\ get_session_info(kv, loc[1].session_id).val.vector_db_id.some
    /\ get_session_info(kv, loc[1].session_id).val.vector_db_id.v
          # loc[1].vector_db_id

\* two results of a read are the same outcome
SameRes(r1, r2) == r1.tag = r2.tag /\ r1.val = r2.val

\* C12: a write made by a store of another agent_id over the same backend
\* changes no key of this store: every read of this store (the three point
\* reads and the range scan) gives the same result after the write as before.
C12_AgentsPartitioned ==
    [][OtherStoreWrite
       => /\ \A session_id \in SessionIds :
                /\ SameRes(get_session_info(kv', session_id),
                           get_session_info(kv, session_id))
                /\ SameRes(get_session_turns(kv', session_id),
                           get_session_turns(kv, session_id))
          /\ \A p \in IdPairs :
                /\ SameRes(get_session_turn(kv', p[1], p[2]),
                           get_session_turn(kv, p[1], p[2]))
                /\ SameRes(get_in_progress_tool_call_step(kv', p[1], p[2]),
                           get_in_progress_tool_call_step(kv, p[1], p[2]))]_vars

\* C13: each write, followed by the matching point read with the same ids,
\* gives back the record that was written, optional fields that were absent
\* being absent again: create_session and add_vector_db_to_session with
\* get_session_info, add_turn_to_session with get_session_turn,
\* set_in_progress_tool_call_step with get_in_progress_tool_call_step.
C13_WriteThenPointRead ==
    [][/\ \A name \in Names, session_id \in Uuids :
             CreateSession(name, session_id)
             => LET r == get_session_info(kv', session_id)
                IN /\ r.tag = "info"
                   /\ r.val = AgentSessionInfo(session_id, name, NoneStr, clock)
       /\ \A t \in Tasks :
             AddVectorDbToSessionSet(t)
             => LET r == get_session_info(kv', loc[t].session_id)
                IN /\ r.tag = "info"
                   /\ r.val = [loc[t].session_info EXCEPT
                                  !.vector_db_id = SomeStr(loc[t].vector_db_id)]
       /\ \A p \in IdPairs : \A turn \in TurnsOf(p[2]) :
             AddTurnToSession(p[1], turn)
             => LET r == get_session_turn(kv', p[1], p[2])
                IN r.tag = "turn" /\ r.val = turn
       /\ \A p \in StepPairs, step \in Steps :
             SetInProgressToolCallStep(p[1], p[2], step)
             => LET r == get_in_progress_tool_call_step(kv', p[1], p[2])
                IN r.tag = "step" /\ r.val = step]_vars

\* a turn written without completed_at has been read back without it
C13_Witness ==
    /\ ret.op = "get_session_turn"
    /\ ret.res.tag = "turn"
    /\ ret.res.val.completed_at = NoneDt
    /\ <<ret.sid, ret.res.val>> \in addedTurns
    /\ kv[TurnKey(ret.sid, ret.tid)] = DumpTurn(ret.res.val)

\* the keys whose stored text a step sets or changes
KeysWritten(before, after) ==
    {k \in DOMAIN after : k \notin DOMAIN before \/ after[k] # before[k]}

\* C14: a mutation writes at most one key and removes none; a call that ends
\* by raising (not found, a record that does not parse, or a backend failure,
\* which reaches the caller as it is and ends the call) has written nothing:
\* no step that raises changes the store, and the get step of
\* add_vector_db_to_session, which comes before its only set, changes nothing.
C14_MutationAtomic ==
    [][/\ DOMAIN kv \subseteq DOMAIN kv'
       /\ Cardinality(KeysWritten(kv, kv')) <= 1
       /\ ret'.res.tag = "raise" => kv' = kv
       /\ \A t \in Tasks :
             /\ (pc[t] = "idle" /\ pc'[t] = "avd_set") => kv' = kv
             /\ (pc[t] = "avd_set" /\ pc'[t] = "idle")
                   => \/ /\ ret'.res.tag = "None"
                         /\ KeysWritten(kv, kv') \subseteq {SessionKey(loc[t].session_id)}
                      \/ /\ ret'.res.tag = "raise"
                         /\ ret'.res.val = "BackendError"
                         /\ kv' = kv]_vars

\* an attach call on a stored session ended with a backend error while the
\* other task was between its get and its set: the record is as
\* create_session wrote it
C14_Witness ==
    /\ ret.op = "add_vector_db_to_session"
    /\ ret.res.tag = "raise"
    /\ ret.res.val = "BackendError"
    /\ pc[1] = "avd_set" /\ pc[2] = "idle"
    /\ loc[1].session_id = ret.sid
    /\ ret.sid \in DOMAIN created
    /\ kv[SessionKey(ret.sid)] = DumpSessionInfo(created[ret.sid])

\* C15: when the turns get_session_turns(S) returns are turns added to S with
\* pairwise distinct turn_ids, they are in the strict order of
\* (completed_at or datetime.min, turn key): ascending sort key, and key order
\* of the turn keys among equal sort keys.  A strict total order fixes the
\* sequence by the set of turns alone, whatever order they were added in.
C15_OrderByTimeThenKey ==
    ret.op = "get_session_turns" =>
        LET turns == ret.res.val
        IN (/\ \A i \in 1..Len(turns) : <<ret.sid, turns[i]>> \in addedTurns
            /\ \A i, j \in 1..Len(turns) :
                  i # j => turns[i].turn_id # turns[j].turn_id)
           => \A i, j \in 1..Len(turns) :
                 i < j =>
                    \/ SortKey(turns[i]) < SortKey(turns[j])
                    \/ /\ SortKey(turns[i]) = SortKey(turns[j])
                       /\ StrLess(TurnKey(ret.sid, turns[i].turn_id),
                                  TurnKey(ret.sid, turns[j].turn_id))

\* two turns of one session with the same completed_at have been returned
C15_Witness ==
    /\ ret.op = "get_session_turns"
    /\ Len(ret.res.val) = 2
    /\ \A i \in 1..2 : <<ret.sid, ret.res.val[i]>> \in addedTurns
    /\ ret.res.val[1].turn_id # ret.res.val[2].turn_id
    /\ ret.res.val[1].completed_at = ret.res.val[2].completed_at

\* C16: after every add_turn_to_session(S, turn), no get_session_turns
\* result holds two turns with the same turn_id, and the turn just written is
\* what get_session_turn(S, turn_id) returns and the only entry with that
\* turn_id in get_session_turns(S).
C16_OneTurnPerId ==
    [][\A p \in IdPairs : \A turn \in TurnsOf(p[2]) :
          AddTurnToSession(p[1], turn)
          => /\ \A session_id \in SessionIds :
                   LET turns == get_session_turns(kv', session_id).val
                   IN \A i, j \in 1..Len(turns) :
                         i # j => turns[i].turn_id # turns[j].turn_id
             /\ LET turns == get_session_turns(kv', p[1]).val
                IN \A i \in 1..Len(turns) :
                      turns[i].turn_id = p[2] => turns[i] = turn
             /\ get_session_turn(kv', p[1], p[2]).tag = "turn"
             /\ get_session_turn(kv', p[1], p[2]).val = turn]_vars

\* the session ids get_session_info is asked about: those of the calls, and "1:u"
InfoProbes == SessionIds \cup {<<49, 58, 117>>}

StepsUnchanged ==
    \A p \in StepPairs :
        SameRes(get_in_progress_tool_call_step(kv', p[1], p[2]),
                get_in_progress_tool_call_step(kv, p[1], p[2]))

InfosUnchanged ==
    \A session_id \in InfoProbes :
        SameRes(get_session_info(kv', session_id), get_session_info(kv, session_id))

\* C17: add_turn_to_session and set_in_progress_tool_call_step leave the
\* result of get_session_info unchanged for every session id;
\* set_in_progress_tool_call_step leaves get_session_turn and
\* get_session_turns unchanged; create_session, add_vector_db_to_session and
\* add_turn_to_session leave get_in_progress_tool_call_step unchanged.
C17_FamiliesApart ==
    [][/\ \A p \in IdPairs : \A turn \in TurnsOf(p[2]) :
             AddTurnToSession(p[1], turn) => InfosUnchanged /\ StepsUnchanged
       /\ \A p \in StepPairs, step \in Steps :
             SetInProgressToolCallStep(p[1], p[2], step)
             => /\ InfosUnchanged
                /\ \A q \in IdPairs :
                      SameRes(get_session_turn(kv', q[1], q[2]),
                              get_session_turn(kv, q[1], q[2]))
                /\ \A session_id \in SessionIds :
                      SameRes(get_session_turns(kv', session_id),
                              get_session_turns(kv, session_id))
       /\ \A name \in Names, session_id \in Uuids :
             CreateSession(name, session_id) => StepsUnchanged
       /\ \A t \in Tasks : AddVectorDbToSessionSet(t) => StepsUnchanged]_vars

\* C18: no step removes a key or blanks its text, and a point read that
\* gives a record before a step gives something other than None after it:
\* get_session_info, get_session_turn and get_in_progress_tool_call_step, for
\* every id they can be asked about.
C18_NeverAbsentAgain ==
    [][kv' # kv
       => /\ DOMAIN kv \subseteq DOMAIN kv'
          /\ \A session_id \in InfoProbes :
                get_session_info(kv, session_id).tag = "info"
                   => get_session_info(kv', session_id).tag # "None"
          /\ \A p \in IdPairs :
                /\ get_session_turn(kv, p[1], p[2]).tag = "turn"
                      => get_session_turn(kv', p[1], p[2]).tag # "None"
                /\ get_in_progress_tool_call_step(kv, p[1], p[2]).tag = "step"
                      => get_in_progress_tool_call_step(kv', p[1], p[2]).tag
                            # "None"]_vars

\* a step was set for a turn, the turn was then added, and the step is still
\* there
C18_Witness ==
    /\ ret.op = "add_turn_to_session"
    /\ <<ret.sid, ret.tid>> \in DOMAIN lastStep
    /\ get_in_progress_tool_call_step(kv, ret.sid, ret.tid).tag = "step"
    /\ get_session_turn(kv, ret.sid, ret.tid).tag = "turn"

\* C19: add_turn_to_session and set_in_progress_tool_call_step on a session id
\* with no stored session record return None, not an error, and write their
\* record under its key; only add_vector_db_to_session refuses such an id.
C19_NoSessionNeeded ==
    [][/\ \A p \in IdPairs : \A turn \in TurnsOf(p[2]) :
             (/\ AddTurnToSession(p[1], turn)
              /\ get_session_info(kv, p[1]).tag = "None")
             => /\ ret'.res.tag = "None"
                /\ TurnKey(p[1], p[2]) \in DOMAIN kv'
                /\ kv'[TurnKey(p[1], p[2])] = DumpTurn(turn)
                /\ get_session_info(kv', p[1]).tag = "None"
       /\ \A p \in StepPairs, step \in Steps :
             (/\ SetInProgressToolCallStep(p[1], p[2], step)
              /\ get_session_info(kv, p[1]).tag = "None")
             => /\ ret'.res.tag = "None"
                /\ StepKey(p[1], p[2]) \in DOMAIN kv'
                /\ kv'[StepKey(p[1], p[2])] = DumpStep(step)
       /\ \A t \in Tasks, session_id \in SessionIds, vector_db_id \in VectorDbIds :
             (/\ AddVectorDbToSessionGet(t, session_id, vector_db_id)
              /\ get_session_info(kv, session_id).tag = "None")
             => ret'.res.tag = "raise"]_vars

\* get_session_turns returns a turn of a session that get_session_info
\* reports absent
C19_Witness ==
    /\ ret.op = "get_session_turns"
    /\ Len(ret.res.val) >= 1
    /\ \A i \in 1..Len(ret.res.val) : <<ret.sid, ret.res.val[i]>> \in addedTurns
    /\ get_session_info(kv, ret.sid).tag = "None"
    /\ created = [k \in {} |-> AgentSessionInfo(<<>>, <<>>, NoneStr, 0)]

====
